---------------------------- MODULE Spec2Model ----------------------------
(***************************************************************************)
(* Claims triage pipeline of the repository (the tool-backed crew of       *)
(* src/src): Intake -> Validator -> Anomaly Detector -> Explanation        *)
(* Builder -> Router -> Audit Aggregator, over the process-wide            *)
(* ClaimTools._MOCK_CLAIMS_DB that the detector records into.              *)
(*                                                                         *)
(* A claim is a Python dict, modelled as a function from field names: a    *)
(* missing key is a name outside the DOMAIN.  Each task hands the updated  *)
(* list of dicts to the next task, modelled as one output per stage.       *)
(***************************************************************************)
EXTENDS Integers, Sequences, FiniteSets, TLC

(* ------------------------------ bounds -------------------------------- *)

\* Number of successive (Spec) or interleaved (SpecConc) pipeline runs.
NumRuns == 2
\* Longest batch of the provider-frequency family.
MaxBatch == 4
\* Longest batch of the duplicate-window family.
MaxDupBatch == 2
\* Longest batch of the validation family.
MaxValBatch == 1
\* Longest batch of the cost-outlier family.
MaxCostBatch == 2
\* Longest batch of the date-parsing family.
MaxDateBatch == 3
\* Longest batch of the intake family.
MaxIntakeBatch == 2
\* Longest batch of the family of records without claim_id.
MaxAnonBatch == 2
\* Longest batch of each run in the interleaved specification.
MaxConcBatch == 1

(* --------------------------- reference data --------------------------- *)

MOCK_CPT_CODES == {"99285", "99213", "81002"}

MOCK_ICD_CODES == {"M54.5", "J06.9", "I10"}

NoReason == "<no reason>"

MOCK_MEMBERS ==
    [m \in {"MBR001", "MBR002", "MBR003"} |->
        IF m = "MBR003" THEN [eligible |-> FALSE, reason |-> "Inactive policy"]
                        ELSE [eligible |-> TRUE, reason |-> NoReason]]

MOCK_AVERAGE_COSTS ==
    [p \in MOCK_CPT_CODES |->
        CASE p = "99285" -> 500 [] p = "99213" -> 100 [] p = "81002" -> 50]

\* "Flag if 3x higher".
CostMultiplier == 3

\* abs((date2 - date1).days) <= 3
DuplicateWindowDays == 3

\* "appears more than 3 times in the current batch".
HighFrequencyThreshold == 3

MandatoryFields ==
    {"claim_id", "member_id", "provider_id", "procedure_code",
     "diagnosis_code", "cost", "date_of_service", "claim_type"}

(* ------------------------------- tools -------------------------------- *)

\* dict.get(key, default)
Get(claim, key, default) == IF key \in DOMAIN claim THEN claim[key] ELSE default

\* str.lower() on the claim types of the input domain.
Lower(s) ==
    CASE s = "Outpatient" -> "outpatient"
      [] s = "PHARMACY" -> "pharmacy"
      [] OTHER -> s

\* The claims_json_string a run is given: `decodes` tells whether json.loads
\* accepts the text, and `value` is the list it then returns.
JsonList(claims) == [decodes |-> TRUE, value |-> claims]

UndecodableJson == [decodes |-> FALSE, value |-> <<>>]

\* json.loads, or [] on a JSONDecodeError.
read_claims_data(claims_json_string) ==
    IF claims_json_string.decodes THEN claims_json_string.value ELSE <<>>

categorize_claimCaseSensitive(claim) ==
    LET claim_type == Get(claim, "claim_type", "unknown")
    IN  IF claim_type \in {"outpatient", "inpatient", "pharmacy"}
        THEN claim_type ELSE "other"

categorize_claim(claim) ==
    LET claim_type == Lower(Get(claim, "claim_type", "unknown"))
    IN  IF claim_type \in {"outpatient", "inpatient", "pharmacy"}
        THEN claim_type ELSE "other"

validate_procedure_code(code) == code \in MOCK_CPT_CODES

validate_diagnosis_code(code) == code \in MOCK_ICD_CODES

check_member_eligibilityIgnoresFlag(member_id) ==
    IF member_id \in DOMAIN MOCK_MEMBERS
    THEN [eligible |-> TRUE, reason |-> NoReason]
    ELSE [eligible |-> FALSE, reason |-> "Member ID not found"]

check_member_eligibility(member_id) ==
    IF member_id \in DOMAIN MOCK_MEMBERS
    THEN MOCK_MEMBERS[member_id]
    ELSE [eligible |-> FALSE, reason |-> "Member ID not found"]

get_average_cost_for_procedure(procedure_code) ==
    IF procedure_code \in DOMAIN MOCK_AVERAGE_COSTS
    THEN MOCK_AVERAGE_COSTS[procedure_code] ELSE 0

\* datetime.strptime(s, '%Y-%m-%d') on the dates of the input domain: the day of
\* July 2025, or a ValueError (no value) for a string that is not such a date.
ParseableDates ==
    {"2025-07-15", "2025-07-16", "2025-07-17", "2025-07-18", "2025-07-19"}

Strptime(s) ==
    CASE s = "2025-07-15" -> 15
      [] s = "2025-07-16" -> 16
      [] s = "2025-07-17" -> 17
      [] s = "2025-07-18" -> 18
      [] s = "2025-07-19" -> 19

Abs(n) == IF n < 0 THEN 0 - n ELSE n

\* The entry record_claim_for_duplicate_check appends.
DbEntry(claim_data) ==
    [claim_id |-> claim_data.claim_id,
     member_id |-> claim_data.member_id,
     provider_id |-> claim_data.provider_id,
     procedure_code |-> claim_data.procedure_code,
     date_of_service |-> claim_data.date_of_service]

record_claim_for_duplicate_checkPrepends(claims_db, claim_data) ==
    <<DbEntry(claim_data)>> \o claims_db

record_claim_for_duplicate_check(claims_db, claim_data) ==
    Append(claims_db, DbEntry(claim_data))

\* One iteration of check_for_duplicate_claim's loop: TRUE when existing_claim
\* makes current_claim a duplicate, FALSE when the loop continues.
DuplicateOfSkipSelfless(existing_claim, current_claim) ==
    /\ existing_claim.member_id = current_claim.member_id
    /\ existing_claim.provider_id = current_claim.provider_id
    /\ existing_claim.procedure_code = current_claim.procedure_code
    /\ existing_claim.date_of_service \in ParseableDates
    /\ current_claim.date_of_service \in ParseableDates
    /\ Abs(Strptime(current_claim.date_of_service)
           - Strptime(existing_claim.date_of_service)) <= DuplicateWindowDays

DuplicateOfStrictWindow(existing_claim, current_claim) ==
    /\ existing_claim.claim_id # current_claim.claim_id
    /\ existing_claim.member_id = current_claim.member_id
    /\ existing_claim.provider_id = current_claim.provider_id
    /\ existing_claim.procedure_code = current_claim.procedure_code
    /\ existing_claim.date_of_service \in ParseableDates
    /\ current_claim.date_of_service \in ParseableDates
    /\ Abs(Strptime(current_claim.date_of_service)
           - Strptime(existing_claim.date_of_service)) < DuplicateWindowDays

DuplicateOf(existing_claim, current_claim) ==
    /\ existing_claim.claim_id # current_claim.claim_id
    /\ existing_claim.member_id = current_claim.member_id
    /\ existing_claim.provider_id = current_claim.provider_id
    /\ existing_claim.procedure_code = current_claim.procedure_code
    /\ existing_claim.date_of_service \in ParseableDates
    /\ current_claim.date_of_service \in ParseableDates
    /\ Abs(Strptime(current_claim.date_of_service)
           - Strptime(existing_claim.date_of_service)) <= DuplicateWindowDays

\* The scan ends without a duplicate at the first entry whose comparison raises.
check_for_duplicate_claimStopsAtError(claims_db, current_claim) ==
    \E k \in 1..Len(claims_db) :
        /\ DuplicateOf(claims_db[k], current_claim)
        /\ \A m \in 1..(k - 1) :
              \/ claims_db[m].claim_id = current_claim.claim_id
              \/ claims_db[m].member_id # current_claim.member_id
              \/ claims_db[m].provider_id # current_claim.provider_id
              \/ claims_db[m].procedure_code # current_claim.procedure_code
              \/ /\ claims_db[m].date_of_service \in ParseableDates
                 /\ current_claim.date_of_service \in ParseableDates

check_for_duplicate_claim(claims_db, current_claim) ==
    \E k \in 1..Len(claims_db) : DuplicateOf(claims_db[k], current_claim)

get_provider_claim_frequency(claims_db, provider_id) ==
    Cardinality({k \in 1..Len(claims_db) : claims_db[k].provider_id = provider_id})

(* ------------------------------- stages ------------------------------- *)

\* Intake: categorize every claim and look for the eight essential fields.
IntakeClaim(raw) ==
    LET missing == MandatoryFields \ DOMAIN raw
    IN  IF missing = {}
        THEN raw @@ [category |-> categorize_claim(raw),
                     initial_status |-> "parsed"]
        ELSE raw @@ [category |-> categorize_claim(raw),
                     initial_status |-> "needs_review_missing_fields",
                     reason |-> missing]

intake_claimsParsedOnly(batch) ==
    SelectSeq([i \in 1..Len(batch) |-> IntakeClaim(batch[i])],
              LAMBDA claim : claim.initial_status = "parsed")

intake_claims(batch) == [i \in 1..Len(batch) |-> IntakeClaim(batch[i])]

\* The three checks of the Validator, in the order the task lists them.
Checks == <<"procedure_code", "diagnosis_code", "member_id">>

CheckSet == {Checks[i] : i \in 1..Len(Checks)}

StatusOfCheck(check) ==
    CASE check = "procedure_code" -> "invalid_procedure_code"
      [] check = "diagnosis_code" -> "invalid_diagnosis_code"
      [] check = "member_id" -> "ineligible_member"

CheckPasses(claim, check) ==
    CASE check = "procedure_code" -> validate_procedure_code(claim.procedure_code)
      [] check = "diagnosis_code" -> validate_diagnosis_code(claim.diagnosis_code)
      [] check = "member_id" -> check_member_eligibility(claim.member_id).eligible

ReasonOfCheck(claim, check) ==
    CASE check = "procedure_code" -> "Invalid procedure code"
      [] check = "diagnosis_code" -> "Invalid diagnosis code"
      [] check = "member_id" -> check_member_eligibility(claim.member_id).reason

FailingChecks(claim) == {check \in CheckSet : ~CheckPasses(claim, check)}

\* The orders in which the validation agent may rank several failing checks:
\* the task names one status per claim and does not say which issue it reports
\* when more than one exists.
Precedences ==
    {p \in [1..3 -> CheckSet] : \A i, j \in 1..3 : p[i] = p[j] => i = j}

\* The failing check that ranks first in order `prec`.
FirstFailing(prec, failing) ==
    prec[CHOOSE i \in 1..3 :
            /\ prec[i] \in failing
            /\ \A j \in 1..(i - 1) : prec[j] \notin failing]

\* The checks the Validator runs on a claim (its tool calls).
ChecksRun(claim) ==
    IF claim.initial_status = "parsed" THEN CheckSet ELSE {}

FirstFailingOnlyReasons(claim, failing) ==
    {ReasonOfCheck(claim, FirstFailing(Checks, failing))}

\* "Combine all validation reasons if multiple issues exist."
CombinedReasons(claim, failing) ==
    {ReasonOfCheck(claim, check) : check \in failing}

ValidateClaimNoShortCircuit(claim, prec) ==
    LET failing == {check \in CheckSet :
                        \/ check \notin DOMAIN claim
                        \/ ~CheckPasses(claim, check)}
    IN  IF failing = {}
        THEN claim @@ [validation_status |-> "valid"]
        ELSE claim @@ [validation_status |-> StatusOfCheck(FirstFailing(prec, failing))]

ValidateClaim(claim, prec) ==
    IF claim.initial_status = "parsed"
    THEN LET failing == FailingChecks(claim)
         IN  IF failing = {}
             THEN claim @@ [validation_status |-> "valid"]
             ELSE claim @@ [validation_status |->
                                StatusOfCheck(FirstFailing(prec, failing)),
                            validation_reason |-> CombinedReasons(claim, failing)]
    ELSE claim @@ [validation_status |-> "invalid_missing_fields"]

validate_claims(claims, prec) == [i \in 1..Len(claims) |-> ValidateClaim(claims[i], prec)]

AnomalyTags == <<"high_cost", "duplicate", "high_frequency_provider">>

\* Severity of each check; the claim's score is the highest among those triggered.
SeverityWeight(tag) ==
    CASE tag = "high_cost" -> 70
      [] tag = "duplicate" -> 90
      [] tag = "high_frequency_provider" -> 50

RECURSIVE MaxOfAsSum(_)
MaxOfAsSum(S) ==
    IF S = {} THEN 0
    ELSE LET m == CHOOSE n \in S : TRUE IN m + MaxOfAsSum(S \ {m})

MaxOf(S) == IF S = {} THEN 0 ELSE CHOOSE m \in S : \A n \in S : n <= m

HighCostAtLeast(claim) ==
    claim.cost >= CostMultiplier * get_average_cost_for_procedure(claim.procedure_code)

\* "Compare 'cost' with the average for its 'procedure_code'. Flag if 3x higher."
HighCost(claim) ==
    claim.cost > CostMultiplier * get_average_cost_for_procedure(claim.procedure_code)

HighFrequencyAtThreshold(claims_db, claim) ==
    get_provider_claim_frequency(claims_db, claim.provider_id) >= HighFrequencyThreshold

HighFrequency(claims_db, claim) ==
    get_provider_claim_frequency(claims_db, claim.provider_id) > HighFrequencyThreshold

\* The database after the detector handled `claim`: only valid claims are recorded.
DbAfterRecordsAll(claims_db, claim) ==
    IF "claim_id" \in DOMAIN claim
       /\ "procedure_code" \in DOMAIN claim /\ "member_id" \in DOMAIN claim
       /\ "provider_id" \in DOMAIN claim /\ "date_of_service" \in DOMAIN claim
    THEN record_claim_for_duplicate_check(claims_db, claim)
    ELSE claims_db

DbAfter(claims_db, claim) ==
    IF claim.validation_status = "valid"
    THEN record_claim_for_duplicate_check(claims_db, claim)
    ELSE claims_db

\* The tags the detector gives a valid claim, the claim being recorded first.
TriggeredTags(claims_db, claim) ==
    LET db1 == DbAfter(claims_db, claim)
        hit == [t \in {"high_cost", "duplicate", "high_frequency_provider"} |->
                   CASE t = "high_cost" -> HighCost(claim)
                     [] t = "duplicate" -> check_for_duplicate_claim(db1, claim)
                     [] t = "high_frequency_provider" -> HighFrequency(db1, claim)]
    IN  SelectSeq(AnomalyTags, LAMBDA t : hit[t])

DetectClaim(claims_db, claim) ==
    IF claim.validation_status = "valid"
    THEN LET tags == TriggeredTags(claims_db, claim)
         IN  claim @@ [anomaly_score |->
                           MaxOf({SeverityWeight(tags[i]) : i \in 1..Len(tags)}),
                       anomaly_reason |-> IF tags = <<>> THEN <<"none">> ELSE tags]
    ELSE claim @@ [anomaly_score |-> 0, anomaly_reason |-> <<"not_applicable">>]

\* The database after the detector handled the first n claims of a run that
\* executes alone, from the empty database run_claims_crew starts with.
RECURSIVE DbAlone(_, _)
DbAlone(claims, n) ==
    IF n = 0 THEN <<>> ELSE DbAfter(DbAlone(claims, n - 1), claims[n])

\* The detector's output for a run that executes alone.
DetectAlone(claims) ==
    [i \in 1..Len(claims) |-> DetectClaim(DbAlone(claims, i - 1), claims[i])]

ExplainClaim(claim) ==
    IF claim.anomaly_score > 0
       /\ claim.anomaly_reason \notin {<<"none">>, <<"not_applicable">>}
    THEN claim @@ [anomaly_explanation |-> <<"Claim flagged">> \o claim.anomaly_reason]
    ELSE claim @@ [anomaly_explanation |-> <<"N/A">>]

generate_explanations(claims) == [i \in 1..Len(claims) |-> ExplainClaim(claims[i])]

FinalRoutingByValidationOnly(validation_status, anomaly_score) ==
    IF validation_status = "valid" THEN "approved" ELSE "audit"

FinalRouting(validation_status, anomaly_score) ==
    IF validation_status = "valid" /\ anomaly_score = 0 THEN "approved" ELSE "audit"

RouteClaim(claim) ==
    claim @@ [final_routing |-> FinalRouting(claim.validation_status, claim.anomaly_score)]

route_claims(claims) == [i \in 1..Len(claims) |-> RouteClaim(claims[i])]

(* --------------------------- audit report ----------------------------- *)

\* str.replace('_', ' ').title() on the reasons the detector writes.
Title(word) ==
    CASE word = "high_cost" -> "High Cost"
      [] word = "duplicate" -> "Duplicate"
      [] word = "high_frequency_provider" -> "High Frequency Provider"
      [] word = "not_applicable" -> "Not Applicable"
      [] word = "none" -> "None"
      [] word = "General Anomaly" -> "General Anomaly"
      [] word = "N/A" -> "N/A"

TitleAll(reason) == [i \in 1..Len(reason) |-> Title(reason[i])]

NoAuditReport ==
    [text |-> "No claims were flagged for audit.", groups |-> <<>>, summary |-> <<>>]

\* The bullet of one claim under its provider.
ReportLine(claim) ==
    [claim_id |-> claim.claim_id,
     cost |-> Get(claim, "cost", -1),
     reason |-> TitleAll(Get(claim, "anomaly_reason", <<"N/A">>)),
     explanation |-> Get(claim, "anomaly_explanation", <<"N/A">>)]

\* provider_grouping after one more claim: a dict in insertion order.
AddToGrouping(groups, claim) ==
    LET provider_id == Get(claim, "provider_id", "Unknown Provider")
        at == {g \in 1..Len(groups) : groups[g].provider_id = provider_id}
    IN  IF at = {}
        THEN Append(groups, [provider_id |-> provider_id, claims |-> <<ReportLine(claim)>>])
        ELSE [g \in 1..Len(groups) |->
                 IF g \in at
                 THEN [groups[g] EXCEPT !.claims = Append(@, ReportLine(claim))]
                 ELSE groups[g]]

\* anomaly_type_counts after one more claim: a dict in insertion order.
AddToCounts(counts, claim) ==
    LET anomaly_reason == TitleAll(Get(claim, "anomaly_reason", <<"General Anomaly">>))
        at == {g \in 1..Len(counts) : counts[g].anomaly_type = anomaly_reason}
    IN  IF at = {}
        THEN Append(counts, [anomaly_type |-> anomaly_reason, count |-> 1])
        ELSE [g \in 1..Len(counts) |->
                 IF g \in at
                 THEN [counts[g] EXCEPT !.count = @ + 1]
                 ELSE counts[g]]

RECURSIVE ProviderGrouping(_, _)
ProviderGrouping(flagged_claims, n) ==
    IF n = 0 THEN <<>>
    ELSE AddToGrouping(ProviderGrouping(flagged_claims, n - 1), flagged_claims[n])

RECURSIVE AnomalyTypeCounts(_, _)
AnomalyTypeCounts(flagged_claims, n) ==
    IF n = 0 THEN <<>>
    ELSE AddToCounts(AnomalyTypeCounts(flagged_claims, n - 1), flagged_claims[n])

\* The outcome of generate_audit_report when claim['claim_id'] raises KeyError
\* while the claims of a provider are rendered: no report is returned.
ReportKeyError ==
    [text |-> "KeyError: 'claim_id'", groups |-> <<>>, summary |-> <<>>]

generate_audit_reportAlwaysRenders(flagged_claims) ==
    [text |-> "# Audit Summary Report",
     groups |-> ProviderGrouping(flagged_claims, Len(flagged_claims)),
     summary |-> AnomalyTypeCounts(flagged_claims, Len(flagged_claims))]

generate_audit_report(flagged_claims) ==
    IF flagged_claims = <<>>
    THEN NoAuditReport
    ELSE IF \E i \in 1..Len(flagged_claims) : "claim_id" \notin DOMAIN flagged_claims[i]
    THEN ReportKeyError
    ELSE [text |-> "# Audit Summary Report",
          groups |-> ProviderGrouping(flagged_claims, Len(flagged_claims)),
          summary |-> AnomalyTypeCounts(flagged_claims, Len(flagged_claims))]

IsAudit(claim) == claim.final_routing = "audit"

summarize_audit(claims) == generate_audit_report(SelectSeq(claims, IsAudit))

(* ------------------------------ batches ------------------------------- *)

Absent == "<absent>"

StringFields ==
    {"member_id", "provider_id", "procedure_code", "diagnosis_code",
     "date_of_service", "claim_type"}

BaseClaim(id) ==
    [claim_id |-> id, member_id |-> "MBR001", provider_id |-> "PRV001",
     procedure_code |-> "99213", diagnosis_code |-> "J06.9", cost |-> 100,
     date_of_service |-> "2025-07-15", claim_type |-> "outpatient"]

\* The claim dict with claim_id `id` and the fields of `kind`; a field that kind
\* gives as Absent is a key the dict does not have.
MakeClaim(id, kind) ==
    LET full == kind @@ BaseClaim(id)
        present == {f \in DOMAIN full : ~(f \in StringFields /\ full[f] = Absent)}
    IN  [f \in present |-> full[f]]

BatchesOf(Kinds, max, base) ==
    UNION {{[i \in 1..n |-> MakeClaim(base + i, ks[i])] : ks \in [1..n -> Kinds]} :
           n \in 0..max}

\* Provider frequency: valid claims of two members at one provider, a valid claim
\* at another provider, and an invalid claim at the first.
FreqKinds ==
    {[member_id |-> "MBR001", provider_id |-> "PRV001"],
     [member_id |-> "MBR002", provider_id |-> "PRV001"],
     [member_id |-> "MBR001", provider_id |-> "PRV002"],
     [provider_id |-> "PRV001", diagnosis_code |-> "BAD_ICD"]}

\* Duplicate window: valid claims of two members with dates 1, 3 and 4 days apart,
\* and invalid claims of the first member.
DupKinds ==
    {[member_id |-> m, date_of_service |-> d] :
        m \in {"MBR001", "MBR002"},
        d \in {"2025-07-15", "2025-07-16", "2025-07-19"}}
    \cup {[date_of_service |-> d, diagnosis_code |-> "BAD_ICD"] :
            d \in {"2025-07-15", "2025-07-16"}}

\* Validation: every combination of passing and failing checks, and a missing field.
ValKinds ==
    {[member_id |-> m, procedure_code |-> p, diagnosis_code |-> g] :
        m \in {"MBR001", "MBR003", "MBR999"},
        p \in {"99213", "INVALID_CPT"},
        g \in {"J06.9", "BAD_ICD", Absent}}

\* Cost outlier: procedures just below, at and just above 3 x their average, and a
\* procedure without an average.
CostKinds ==
    {[procedure_code |-> "99213", cost |-> c] : c \in {299, 300, 301}}
    \cup {[procedure_code |-> "99285", cost |-> c] : c \in {1500, 1501}}
    \cup {[procedure_code |-> "INVALID_CPT", cost |-> 5000]}

\* sample_claims_json, the batch the program is run on.
sample_claims ==
    <<[claim_id |-> "CLM001", member_id |-> "MBR001", provider_id |-> "PRV001",
       procedure_code |-> "99285", diagnosis_code |-> "M54.5", cost |-> 1200,
       date_of_service |-> "2025-07-15", claim_type |-> "outpatient"],
      [claim_id |-> "CLM002", member_id |-> "MBR002", provider_id |-> "PRV001",
       procedure_code |-> "99285", diagnosis_code |-> "M54.5", cost |-> 400,
       date_of_service |-> "2025-07-16", claim_type |-> "outpatient"],
      [claim_id |-> "CLM003", member_id |-> "MBR001", provider_id |-> "PRV002",
       procedure_code |-> "INVALID_CPT", diagnosis_code |-> "M54.5", cost |-> 300,
       date_of_service |-> "2025-07-17", claim_type |-> "inpatient"],
      [claim_id |-> "CLM004", member_id |-> "MBR003", provider_id |-> "PRV003",
       procedure_code |-> "99213", diagnosis_code |-> "J06.9", cost |-> 100,
       date_of_service |-> "2025-07-18", claim_type |-> "pharmacy"],
      [claim_id |-> "CLM005", member_id |-> "MBR002", provider_id |-> "PRV001",
       procedure_code |-> "99285", diagnosis_code |-> "M54.5", cost |-> 400,
       date_of_service |-> "2025-07-17", claim_type |-> "outpatient"],
      [claim_id |-> "CLM006", member_id |-> "MBR001", provider_id |-> "PRV001",
       procedure_code |-> "99213", diagnosis_code |-> "I10", cost |-> 120,
       date_of_service |-> "2025-07-19", claim_type |-> "outpatient"]>>

\* Date parsing: valid claims of one key dated 15 and 16 July and on a date that
\* strptime rejects.
DateKinds ==
    {[date_of_service |-> d] : d \in {"2025-07-15", "2025-07-16", "15/07/2025"}}

\* Intake: claim types in and out of the three categories, in another letter case
\* and missing, on complete records and on records without diagnosis_code.
IntakeKinds ==
    {[claim_type |-> t, diagnosis_code |-> g] :
        t \in {"inpatient", "Outpatient", "dental", Absent},
        g \in {"J06.9", Absent}}

\* Records without claim_id: a valid and an invalid claim, each with and without
\* its claim_id.
AnonKinds ==
    {[fields |-> [diagnosis_code |-> g], anonymous |-> a] :
        g \in {"J06.9", "BAD_ICD"}, a \in BOOLEAN}

MakeRecord(id, kind) ==
    LET claim == MakeClaim(id, kind.fields)
    IN  IF kind.anonymous
        THEN [f \in DOMAIN claim \ {"claim_id"} |-> claim[f]]
        ELSE claim

AnonBatches ==
    UNION {{[i \in 1..n |-> MakeRecord(i, ks[i])] : ks \in [1..n -> AnonKinds]} :
           n \in 0..MaxAnonBatch}

Batches ==
    BatchesOf(FreqKinds, MaxBatch, 0) \cup BatchesOf(DupKinds, MaxDupBatch, 0)
    \cup BatchesOf(ValKinds, MaxValBatch, 0) \cup BatchesOf(CostKinds, MaxCostBatch, 0)
    \cup BatchesOf(DateKinds, MaxDateBatch, 0)
    \cup BatchesOf(IntakeKinds, MaxIntakeBatch, 0)
    \cup AnonBatches

\* The inputs of a run: the JSON text of a batch, or text that is not JSON.
Inputs == {JsonList(b) : b \in Batches \cup {sample_claims}} \cup {UndecodableJson}

\* The batches of the interleaved runs: run r's claim ids start at 100 * r.
ConcBatches(r) == BatchesOf(DupKinds, MaxConcBatch, 100 * r)

(* ---------------------------- state machine --------------------------- *)

Runs == 1..NumRuns

VARIABLES
    claims_db,      \* ClaimTools._MOCK_CLAIMS_DB, one per process
    precedence,     \* how the validation agent ranks several failing checks
    claims_json,    \* claims_json[r]: the input run r is started with
    batch,          \* batch[r]: the claims read_claims_data returned to run r
    pc,             \* pc[r]: the task run r executes next
    intake_output,  \* per run, the output of each task
    validation_output,
    checks_run,     \* per run and claim, the checks the Validator called
    anomaly_output,
    explanation_output,
    routing_output,
    audit_summary

vars ==
    <<claims_db, precedence, claims_json, batch, pc, intake_output, validation_output, checks_run,
      anomaly_output, explanation_output, routing_output, audit_summary>>

Stages ==
    <<"idle", "intake", "validate", "detect", "explain", "route", "summarize", "done">>

HasSeveralIssues(raw) ==
    /\ MandatoryFields \subseteq DOMAIN raw
    /\ Cardinality(FailingChecks(raw)) > 1

InitRuns ==
    /\ claims_db = <<>>
    /\ batch = [r \in Runs |-> <<>>]
    /\ pc = [r \in Runs |-> "idle"]
    /\ intake_output = [r \in Runs |-> <<>>]
    /\ validation_output = [r \in Runs |-> <<>>]
    /\ checks_run = [r \in Runs |-> <<>>]
    /\ anomaly_output = [r \in Runs |-> <<>>]
    /\ explanation_output = [r \in Runs |-> <<>>]
    /\ routing_output = [r \in Runs |-> <<>>]
    /\ audit_summary = [r \in Runs |-> NoAuditReport]
    /\ precedence \in
          IF \E r \in Runs : \E i \in 1..Len(claims_json[r].value) :
                 HasSeveralIssues(claims_json[r].value[i])
          THEN Precedences ELSE {Checks}

\* The same batch is run NumRuns times in succession.
Init ==
    /\ \E input \in Inputs : claims_json = [r \in Runs |-> input]
    /\ InitRuns

\* Each run has a batch of its own.
InitConc ==
    /\ claims_json \in [Runs -> {JsonList(b) : b \in UNION {ConcBatches(r) : r \in Runs}}]
    /\ \A r \in Runs : claims_json[r].value \in ConcBatches(r)
    /\ InitRuns

StartKeepsDb(r) ==
    /\ pc[r] = "idle"
    /\ pc' = [pc EXCEPT ![r] = "intake"]
    /\ UNCHANGED <<claims_db, precedence, claims_json, batch, intake_output, validation_output,
                   checks_run, anomaly_output, explanation_output, routing_output, audit_summary>>

\* run_claims_crew: empty the database, build the crew, kick it off.
Start(r) ==
    /\ pc[r] = "idle"
    /\ claims_db' = <<>>
    /\ pc' = [pc EXCEPT ![r] = "intake"]
    /\ UNCHANGED <<precedence, claims_json, batch, intake_output, validation_output,
                   checks_run, anomaly_output, explanation_output, routing_output, audit_summary>>

\* The intake agent reads the input with read_claims_data and handles each claim.
Intake(r) ==
    /\ pc[r] = "intake"
    /\ batch' = [batch EXCEPT ![r] = read_claims_data(claims_json[r])]
    /\ intake_output' =
          [intake_output EXCEPT ![r] = intake_claims(read_claims_data(claims_json[r]))]
    /\ pc' = [pc EXCEPT ![r] = "validate"]
    /\ UNCHANGED <<claims_db, precedence, claims_json, validation_output, checks_run,
                   anomaly_output, explanation_output, routing_output, audit_summary>>

Validate(r) ==
    /\ pc[r] = "validate"
    /\ validation_output' =
          [validation_output EXCEPT ![r] = validate_claims(intake_output[r], precedence)]
    /\ checks_run' = [checks_run EXCEPT ![r] = [i \in 1..Len(intake_output[r]) |-> ChecksRun(intake_output[r][i])]]
    /\ pc' = [pc EXCEPT ![r] = "detect"]
    /\ UNCHANGED <<claims_db, precedence, claims_json, batch, intake_output,
                   anomaly_output, explanation_output, routing_output, audit_summary>>

\* The detector handles the next claim of the validated list.
Detect(r) ==
    /\ pc[r] = "detect"
    /\ Len(anomaly_output[r]) < Len(validation_output[r])
    /\ LET claim == validation_output[r][Len(anomaly_output[r]) + 1]
       IN  /\ claims_db' = DbAfter(claims_db, claim)
           /\ anomaly_output' =
                 [anomaly_output EXCEPT ![r] = Append(@, DetectClaim(claims_db, claim))]
    /\ UNCHANGED <<precedence, claims_json, batch, pc, intake_output, validation_output,
                   checks_run, explanation_output, routing_output, audit_summary>>

\* The detector hands over whatever it has handled so far.
DetectDoneEarly(r) ==
    /\ pc[r] = "detect"
    /\ pc' = [pc EXCEPT ![r] = "explain"]
    /\ UNCHANGED <<claims_db, precedence, claims_json, batch, intake_output, validation_output,
                   checks_run, anomaly_output, explanation_output, routing_output, audit_summary>>

DetectDone(r) ==
    /\ pc[r] = "detect"
    /\ Len(anomaly_output[r]) = Len(validation_output[r])
    /\ pc' = [pc EXCEPT ![r] = "explain"]
    /\ UNCHANGED <<claims_db, precedence, claims_json, batch, intake_output, validation_output,
                   checks_run, anomaly_output, explanation_output, routing_output, audit_summary>>

Explain(r) ==
    /\ pc[r] = "explain"
    /\ explanation_output' =
          [explanation_output EXCEPT ![r] = generate_explanations(anomaly_output[r])]
    /\ pc' = [pc EXCEPT ![r] = "route"]
    /\ UNCHANGED <<claims_db, precedence, claims_json, batch, intake_output, validation_output,
                   checks_run, anomaly_output, routing_output, audit_summary>>

\* The call to the language model of the explanation agent fails: the exception
\* leaves kickoff and run_claims_crew, and the run ends without a result.
ExplainFails(r) ==
    /\ pc[r] = "explain"
    /\ pc' = [pc EXCEPT ![r] = "aborted"]
    /\ UNCHANGED <<claims_db, precedence, claims_json, batch, intake_output, validation_output,
                   checks_run, anomaly_output, explanation_output, routing_output, audit_summary>>

Route(r) ==
    /\ pc[r] = "route"
    /\ routing_output' = [routing_output EXCEPT ![r] = route_claims(explanation_output[r])]
    /\ pc' = [pc EXCEPT ![r] = "summarize"]
    /\ UNCHANGED <<claims_db, precedence, claims_json, batch, intake_output, validation_output,
                   checks_run, anomaly_output, explanation_output, audit_summary>>

Summarize(r) ==
    /\ pc[r] = "summarize"
    /\ audit_summary' = [audit_summary EXCEPT ![r] = summarize_audit(routing_output[r])]
    /\ pc' = [pc EXCEPT ![r] = "done"]
    /\ UNCHANGED <<claims_db, precedence, claims_json, batch, intake_output, validation_output,
                   checks_run, anomaly_output, explanation_output, routing_output>>

\* Successive runs: a run is started when the runs before it have finished.
StartNext(r) ==
    /\ \A q \in 1..(r - 1) : pc[q] = "done"
    /\ Start(r)

Next ==
    \E r \in Runs :
        \/ StartNext(r)
        \/ Intake(r)
        \/ Validate(r)
        \/ Detect(r)
        \/ DetectDone(r)
        \/ Explain(r)
        \/ Route(r)
        \/ Summarize(r)

Spec == Init /\ [][Next]_vars

\* Process.sequential: kickoff runs each task of the crew to its end, one after
\* the other, so a run that can take a step eventually takes it.
SpecFair == Init /\ [][Next]_vars /\ WF_vars(Next)

\* Runs in which the language model behind the explanation agent may fail.
NextCollab ==
    \E r \in Runs :
        \/ StartNext(r)
        \/ Intake(r)
        \/ Validate(r)
        \/ Detect(r)
        \/ DetectDone(r)
        \/ Explain(r)
        \/ ExplainFails(r)
        \/ Route(r)
        \/ Summarize(r)

SpecCollab == Init /\ [][NextCollab]_vars

\* Interleaved runs: any run may be started and may take the next step at any time.
NextConc ==
    \E r \in Runs :
        \/ Start(r)
        \/ Intake(r)
        \/ Validate(r)
        \/ Detect(r)
        \/ DetectDone(r)
        \/ Explain(r)
        \/ Route(r)
        \/ Summarize(r)

SpecConc == InitConc /\ [][NextConc]_vars

(* ------------------------------- claims ------------------------------- *)

IsValid(claim) == claim.validation_status = "valid"

\* The anomaly tags a claim carries.
TagsOf(claim) ==
    {claim.anomaly_reason[i] : i \in 1..Len(claim.anomaly_reason)}
    \cap {"high_cost", "duplicate", "high_frequency_provider"}

SameKey(a, b) ==
    /\ a.member_id = b.member_id
    /\ a.provider_id = b.provider_id
    /\ a.procedure_code = b.procedure_code

\* The days between the dates of two claims, -1 when one of them cannot be parsed.
DaysApart(a, b) ==
    IF a.date_of_service \in ParseableDates /\ b.date_of_service \in ParseableDates
    THEN Abs(Strptime(a.date_of_service) - Strptime(b.date_of_service))
    ELSE -1

\* C1: after the Router stage every claim is approved exactly when it is valid with
\* anomaly score 0, and is sent to audit in every other case.
RoutingDecisionTable ==
    \A r \in Runs : \A i \in 1..Len(routing_output[r]) :
        LET claim == routing_output[r][i]
        IN  /\ claim.final_routing = "approved"
                <=> (claim.validation_status = "valid" /\ claim.anomaly_score = 0)
            /\ claim.final_routing # "approved" => claim.final_routing = "audit"

\* C1 witness: a routed batch with an approved claim and a valid claim sent to audit
\* for its anomaly alone.
RoutingWitness ==
    \E r \in Runs :
        /\ pc[r] = "done"
        /\ \E i, j \in 1..Len(routing_output[r]) :
              /\ routing_output[r][i].final_routing = "approved"
              /\ routing_output[r][j].final_routing = "audit"
              /\ IsValid(routing_output[r][j])
              /\ routing_output[r][j].anomaly_score > 0

\* C2: a valid claim whose earlier valid claim of the same member, provider and
\* procedure lies one day away (before or after) is tagged duplicate, and a claim
\* with no earlier valid claim of its key is never tagged, whatever follows it.
DuplicateOrderSensitive ==
    \A r \in Runs : \A j \in 1..Len(anomaly_output[r]) :
        LET out == anomaly_output[r]
            earlier == {i \in 1..(j - 1) : IsValid(out[i]) /\ SameKey(out[i], out[j])}
        IN  IsValid(out[j]) =>
                /\ (\E i \in earlier : DaysApart(out[i], out[j]) = 1)
                       => "duplicate" \in TagsOf(out[j])
                /\ earlier = {} => "duplicate" \notin TagsOf(out[j])

\* C2 witness: B (day 16) submitted before A (day 15): A is tagged, B is not.
DuplicateOrderWitness ==
    \E r \in Runs :
        /\ pc[r] = "done"
        /\ Len(anomaly_output[r]) = 2
        /\ LET b == anomaly_output[r][1]
               a == anomaly_output[r][2]
           IN  /\ IsValid(a) /\ IsValid(b) /\ SameKey(a, b)
               /\ b.date_of_service = "2025-07-16" /\ a.date_of_service = "2025-07-15"
               /\ "duplicate" \in TagsOf(a)
               /\ "duplicate" \notin TagsOf(b)

\* C3: interleaved runs do not share BatchState: every claim gets from the detector
\* the verdict it gets when its run executes alone.
RunsIsolated ==
    \A r \in Runs : \A j \in 1..Len(anomaly_output[r]) :
        anomaly_output[r][j] = DetectAlone(validation_output[r])[j]

\* C4: a claim that Intake marked needs_review_missing_fields gets
\* validation_status invalid_missing_fields from the Validator, which runs none of
\* its checks on it and keeps the missing-fields reason; no later stage replaces
\* the status.
MissingFieldsShortCircuit ==
    \A r \in Runs : \A i \in 1..Len(validation_output[r]) :
        intake_output[r][i].initial_status = "needs_review_missing_fields" =>
            /\ validation_output[r][i].validation_status = "invalid_missing_fields"
            /\ validation_output[r][i].reason = intake_output[r][i].reason
            /\ "validation_reason" \notin DOMAIN validation_output[r][i]
            /\ checks_run[r][i] = {}
            /\ \A out \in {anomaly_output[r], explanation_output[r], routing_output[r]} :
                   i \in 1..Len(out) =>
                       /\ out[i].validation_status = "invalid_missing_fields"
                       /\ out[i].reason = intake_output[r][i].reason

\* C4 witness: a claim with a missing field has gone through every stage.
MissingFieldsWitness ==
    \E r \in Runs :
        /\ pc[r] = "done"
        /\ \E i \in 1..Len(routing_output[r]) :
              /\ intake_output[r][i].initial_status = "needs_review_missing_fields"
              /\ "diagnosis_code" \in intake_output[r][i].reason
              /\ routing_output[r][i].validation_status = "invalid_missing_fields"

\* C5 as stated: the status of a parsed claim is decided by the first failing check
\* in the order procedure code, diagnosis code, member eligibility; the checks after
\* it are not evaluated and only its reason is reported.
FirstFailingCheckWins ==
    \A r \in Runs : \A i \in 1..Len(validation_output[r]) :
        LET in == intake_output[r][i]
            out == validation_output[r][i]
            failing == FailingChecks(in)
            first == CHOOSE n \in 1..3 :
                        /\ Checks[n] \in failing
                        /\ \A m \in 1..(n - 1) : Checks[m] \notin failing
        IN  in.initial_status = "parsed" =>
                IF failing = {}
                THEN out.validation_status = "valid"
                ELSE /\ out.validation_status = StatusOfCheck(Checks[first])
                     /\ out.validation_reason = {ReasonOfCheck(in, Checks[first])}
                     /\ checks_run[r][i] = {Checks[m] : m \in 1..first}

\* C5 amended: a parsed claim gets exactly one validation_status, valid exactly when
\* all three checks pass and otherwise the status of one of its failing checks (of
\* the failing check when only one fails); all three checks are evaluated and the
\* reasons of all failing checks are combined.
ValidationStatusOfFailingCheck ==
    \A r \in Runs : \A i \in 1..Len(validation_output[r]) :
        LET in == intake_output[r][i]
            out == validation_output[r][i]
            procedure_ok == in.procedure_code \in MOCK_CPT_CODES
            diagnosis_ok == in.diagnosis_code \in MOCK_ICD_CODES
            eligible == in.member_id \in {"MBR001", "MBR002"}
            statuses ==
                {st \in {"invalid_procedure_code", "invalid_diagnosis_code",
                         "ineligible_member"} :
                    \/ st = "invalid_procedure_code" /\ ~procedure_ok
                    \/ st = "invalid_diagnosis_code" /\ ~diagnosis_ok
                    \/ st = "ineligible_member" /\ ~eligible}
        IN  in.initial_status = "parsed" =>
                /\ out.validation_status = "valid" <=> statuses = {}
                /\ out.validation_status # "valid" => out.validation_status \in statuses
                /\ checks_run[r][i] = {"procedure_code", "diagnosis_code", "member_id"}
                /\ statuses # {} =>
                       /\ Cardinality(out.validation_reason) = Cardinality(statuses)
                       /\ ~procedure_ok => "Invalid procedure code" \in out.validation_reason
                       /\ ~diagnosis_ok => "Invalid diagnosis code" \in out.validation_reason
                       /\ in.member_id = "MBR003"
                              => "Inactive policy" \in out.validation_reason
                       /\ in.member_id = "MBR999"
                              => "Member ID not found" \in out.validation_reason

\* C5 witness: a claim failing all three checks has been validated: it carries one
\* status, not that of the procedure-code check, and all three reasons.
ValidationCombinedWitness ==
    \E r \in Runs : \E i \in 1..Len(validation_output[r]) :
        /\ intake_output[r][i].initial_status = "parsed"
        /\ FailingChecks(intake_output[r][i]) = CheckSet
        /\ validation_output[r][i].validation_status = "ineligible_member"
        /\ Cardinality(validation_output[r][i].validation_reason) = 3

\* The valid claims of out[j]'s provider among the first j claims of out.
ValidOfProviderUpTo(out, j) ==
    {i \in 1..j : IsValid(out[i]) /\ out[i].provider_id = out[j].provider_id}

HasFrequencyTag(claim) == "high_frequency_provider" \in TagsOf(claim)

HighCostIffAboveThreshold ==
    \A r \in Runs : \A j \in 1..Len(anomaly_output[r]) :
        LET claim == anomaly_output[r][j]
            average == IF claim.procedure_code \in DOMAIN MOCK_AVERAGE_COSTS
                       THEN MOCK_AVERAGE_COSTS[claim.procedure_code] ELSE 0
        IN  "high_cost" \in TagsOf(claim)
                <=> (IsValid(claim) /\ average # 0 /\ claim.cost > 3 * average)

\* C8 witness: of two valid claims for procedure 99213 (average 100), the one that
\* costs 300 is not tagged and the one that costs 301 is.
HighCostBoundaryWitness ==
    \E r \in Runs :
        /\ pc[r] = "explain"
        /\ Len(anomaly_output[r]) = 2
        /\ \A i \in 1..2 :
              /\ IsValid(anomaly_output[r][i])
              /\ anomaly_output[r][i].procedure_code = "99213"
        /\ anomaly_output[r][1].cost = 300
        /\ "high_cost" \notin TagsOf(anomaly_output[r][1])
        /\ anomaly_output[r][2].cost = 301
        /\ "high_cost" \in TagsOf(anomaly_output[r][2])

Past(r, stage) ==
    \E m, n \in 1..Len(Stages) : m < n /\ Stages[m] = stage /\ Stages[n] = pc[r]

IsPrefix(s, t) == Len(s) <= Len(t) /\ \A i \in 1..Len(s) : s[i] = t[i]

InvalidClaimsPassThrough ==
    /\ \A k \in 1..Len(claims_db) :
          \E r \in Runs : \E i \in 1..Len(validation_output[r]) :
              /\ IsValid(validation_output[r][i])
              /\ validation_output[r][i].claim_id = claims_db[k].claim_id
    /\ \A r \in Runs :
          /\ \A j \in 1..Len(anomaly_output[r]) :
                LET before == validation_output[r][j]
                    after == anomaly_output[r][j]
                IN  ~IsValid(before) =>
                        /\ after.anomaly_score = 0
                        /\ TagsOf(after) = {}
                        /\ DOMAIN after = DOMAIN before \cup {"anomaly_score", "anomaly_reason"}
                        /\ \A f \in DOMAIN before : after[f] = before[f]
          /\ Past(r, "detect") =>
                SelectSeq(anomaly_output[r], IsValid)
                    = DetectAlone(SelectSeq(validation_output[r], IsValid))

\* C10 witness: an invalid claim was followed by a valid claim of the same member,
\* provider and procedure one day later, which is not tagged duplicate.
InvalidPassThroughWitness ==
    \E r \in Runs :
        /\ pc[r] = "explain"
        /\ Len(anomaly_output[r]) = 2
        /\ ~IsValid(anomaly_output[r][1])
        /\ IsValid(anomaly_output[r][2])
        /\ SameKey(anomaly_output[r][1], anomaly_output[r][2])
        /\ DaysApart(anomaly_output[r][1], anomaly_output[r][2]) = 1
        /\ anomaly_output[r][1].anomaly_score = 0
        /\ TagsOf(anomaly_output[r][2]) = {}
        /\ Len(claims_db) = 1

\* The claim_ids of the routed claims of run r with the given routing.
RoutedTo(r, routing) ==
    {routing_output[r][i].claim_id :
        i \in {k \in 1..Len(routing_output[r]) :
                  routing_output[r][k].final_routing = routing}}

\* The claim of run r's routed output with the given claim_id.
RoutedClaim(r, id) ==
    routing_output[r][CHOOSE i \in 1..Len(routing_output[r]) :
                          routing_output[r][i].claim_id = id]

RanSample(r) == pc[r] = "done" /\ batch[r] = sample_claims

AuditClaims(r) == SelectSeq(routing_output[r], IsAudit)

\* The count the report's summary gives for the anomaly tag `tag`, 0 when the
\* summary has no line for it.
SummaryCount(r, tag) ==
    LET summary == audit_summary[r].summary
        at == {c \in 1..Len(summary) : summary[c].anomaly_type = <<Title(tag)>>}
    IN  IF at = {} THEN 0 ELSE summary[CHOOSE c \in at : TRUE].count

\* C13: for a non-empty audit set the report lists the provider groups in the
\* order in which the providers first appear among the audit claims, the claims
\* of each group in batch order, and a summary in which the count of each anomaly
\* tag is the number of times the tag occurs on the claims of all groups.
ReportTalliesPerTag ==
    \A r \in Runs :
        (pc[r] = "done" /\ AuditClaims(r) # <<>>) =>
            LET audit == AuditClaims(r)
                groups == audit_summary[r].groups
                first(g) == CHOOSE i \in 1..Len(audit) :
                                /\ audit[i].provider_id = groups[g].provider_id
                                /\ \A k \in 1..(i - 1) :
                                       audit[k].provider_id # groups[g].provider_id
                inGroup(g) == SelectSeq(audit,
                                  LAMBDA c : c.provider_id = groups[g].provider_id)
            IN  /\ {groups[g].provider_id : g \in 1..Len(groups)}
                       = {audit[i].provider_id : i \in 1..Len(audit)}
                /\ \A g, h \in 1..Len(groups) : g < h => first(g) < first(h)
                /\ \A g \in 1..Len(groups) :
                       [k \in 1..Len(groups[g].claims) |-> groups[g].claims[k].claim_id]
                           = [k \in 1..Len(inGroup(g)) |-> inGroup(g)[k].claim_id]
                /\ \A tag \in {"high_cost", "duplicate", "high_frequency_provider"} :
                       SummaryCount(r, tag)
                           = Cardinality({i \in 1..Len(audit) : tag \in TagsOf(audit[i])})

\* C14: a run whose input is not a decodable list of claims ends before any claim
\* is processed: no stage produces an output, the database stays empty and the
\* run never delivers an audit report.
MalformedBatchAborts ==
    \A r \in Runs :
        ~claims_json[r].decodes =>
            /\ claims_db = <<>>
            /\ routing_output[r] = <<>>
            /\ pc[r] \notin {"explain", "route", "summarize", "done"}

\* C15: the output of every stage (Intake, Validator, Anomaly Detector, Explanation
\* Builder, Router) has the length of the submitted batch and its i-th element
\* carries the claim_id of the i-th submitted record; while the detector runs its
\* output is the prefix handled so far.
StagesPreserveOrder ==
    \A r \in Runs :
        LET submitted == claims_json[r].value
            ids(out) == [i \in 1..Len(out) |-> Get(out[i], "claim_id", Absent)]
            whole(out) == ids(out) = ids(submitted)
        IN  claims_json[r].decodes =>
                /\ Past(r, "intake") => whole(intake_output[r])
                /\ Past(r, "validate") => whole(validation_output[r])
                /\ IsPrefix(ids(anomaly_output[r]), ids(submitted))
                /\ Past(r, "detect") => whole(anomaly_output[r])
                /\ Past(r, "explain") => whole(explanation_output[r])
                /\ Past(r, "route") => whole(routing_output[r])

\* C15 witness: a run of a batch of four claims, one of them invalid and one sent
\* to audit for an anomaly, has finished with four routed claims.
StagesPreserveOrderWitness ==
    \E r \in Runs :
        /\ pc[r] = "done"
        /\ Len(claims_json[r].value) = 4
        /\ Len(routing_output[r]) = 4
        /\ \E i, j \in 1..4 :
              /\ ~IsValid(routing_output[r][i])
              /\ IsValid(routing_output[r][j])
              /\ routing_output[r][j].final_routing = "audit"

ScoreIsMaxSeverity ==
    \A r \in Runs : \A j \in 1..Len(anomaly_output[r]) :
        LET out == anomaly_output[r]
            claim == out[j]
            weight == [t \in {"high_cost", "duplicate", "high_frequency_provider"} |->
                          CASE t = "high_cost" -> 70
                            [] t = "duplicate" -> 90
                            [] t = "high_frequency_provider" -> 50]
            costly == /\ claim.procedure_code \in DOMAIN MOCK_AVERAGE_COSTS
                      /\ claim.cost > 3 * MOCK_AVERAGE_COSTS[claim.procedure_code]
            repeated == \E i \in 1..(j - 1) :
                            /\ IsValid(out[i]) /\ SameKey(out[i], claim)
                            /\ out[i].date_of_service \in ParseableDates
                            /\ claim.date_of_service \in ParseableDates
                            /\ DaysApart(out[i], claim) <= 3
            frequent == Cardinality(ValidOfProviderUpTo(out, j)) > 3
            triggered == IF IsValid(claim)
                         THEN {t \in DOMAIN weight :
                                  \/ t = "high_cost" /\ costly
                                  \/ t = "duplicate" /\ repeated
                                  \/ t = "high_frequency_provider" /\ frequent}
                         ELSE {}
        IN  /\ TagsOf(claim) = triggered
            /\ claim.anomaly_score \in 0..100
            /\ claim.anomaly_score = 0 <=> TagsOf(claim) = {}
            /\ \A t \in triggered : claim.anomaly_score >= weight[t]
            /\ triggered # {} => \E t \in triggered : claim.anomaly_score = weight[t]
            /\ Len(claim.anomaly_reason) = IF triggered = {} THEN 1 ELSE Cardinality(triggered)

\* C17 witness: a claim tagged high_cost and duplicate has the score of the
\* duplicate check, and the claim before it, tagged high_cost only, that of the
\* cost check.
ScoreIsMaxWitness ==
    \E r \in Runs :
        /\ Len(anomaly_output[r]) = 2
        /\ TagsOf(anomaly_output[r][1]) = {"high_cost"}
        /\ anomaly_output[r][1].anomaly_score = 70
        /\ TagsOf(anomaly_output[r][2]) = {"high_cost", "duplicate"}
        /\ anomaly_output[r][2].anomaly_score = 90

\* C18: a claim whose date_of_service cannot be parsed goes through the detector
\* like any other claim; a comparison in which a date cannot be parsed is skipped
\* and the scan goes on: such a claim is never tagged duplicate, never makes
\* another claim a duplicate, and a matching entry with a parseable date is found
\* even when an entry with an unparseable date precedes it in the database.
UnparseableDateSkipped ==
    \A r \in Runs : \A j \in 1..Len(anomaly_output[r]) :
        LET out == anomaly_output[r]
            parses(c) == c.date_of_service \in ParseableDates
            matches == {i \in 1..(j - 1) :
                           /\ IsValid(out[i]) /\ SameKey(out[i], out[j])
                           /\ parses(out[i]) /\ parses(out[j])
                           /\ DaysApart(out[i], out[j]) <= 3}
        IN  IsValid(out[j]) =>
                /\ {"anomaly_score", "anomaly_reason"} \subseteq DOMAIN out[j]
                /\ ~parses(out[j]) => "duplicate" \notin TagsOf(out[j])
                /\ "duplicate" \in TagsOf(out[j]) => matches # {}
                /\ matches # {} => "duplicate" \in TagsOf(out[j])

\* C18 witness: after a claim with an unparseable date and a claim of 15 July with
\* the same key, the claim of 16 July is tagged duplicate and the first two are not.
UnparseableDateWitness ==
    \E r \in Runs :
        /\ pc[r] = "explain"
        /\ Len(anomaly_output[r]) = 3
        /\ \A i \in 1..3 : IsValid(anomaly_output[r][i])
        /\ anomaly_output[r][1].date_of_service \notin ParseableDates
        /\ anomaly_output[r][2].date_of_service = "2025-07-15"
        /\ anomaly_output[r][3].date_of_service = "2025-07-16"
        /\ TagsOf(anomaly_output[r][1]) = {}
        /\ TagsOf(anomaly_output[r][2]) = {}
        /\ TagsOf(anomaly_output[r][3]) = {"duplicate"}
        /\ Len(claims_db) = 3

\* C19 as stated: Intake gives a record that misses a mandatory field the status
\* needs_review_missing_fields and the category other; a complete record gets the
\* status parsed and its claim_type as category when that is exactly outpatient,
\* inpatient or pharmacy, and the category other for any other claim_type.
IntakeCategoryAsStated ==
    \A r \in Runs : \A i \in 1..Len(intake_output[r]) :
        LET raw == batch[r][i]
            out == intake_output[r][i]
        IN  IF MandatoryFields \subseteq DOMAIN raw
            THEN /\ out.initial_status = "parsed"
                 /\ out.category = IF raw.claim_type \in {"outpatient", "inpatient", "pharmacy"}
                                   THEN raw.claim_type ELSE "other"
            ELSE /\ out.initial_status = "needs_review_missing_fields"
                 /\ out.category = "other"

\* C19 amended: Intake gives a record the status needs_review_missing_fields when
\* it misses a mandatory field and parsed otherwise; whatever the status, the
\* category is the lower-cased claim_type when that is outpatient, inpatient or
\* pharmacy in any letter case, and other when the claim_type is anything else or
\* is missing.
IntakeCategoryFromClaimType ==
    \A r \in Runs : \A i \in 1..Len(intake_output[r]) :
        LET raw == batch[r][i]
            out == intake_output[r][i]
            expected ==
                IF "claim_type" \notin DOMAIN raw THEN "other"
                ELSE CASE raw.claim_type \in {"outpatient", "Outpatient"} -> "outpatient"
                       [] raw.claim_type = "inpatient" -> "inpatient"
                       [] raw.claim_type \in {"pharmacy", "PHARMACY"} -> "pharmacy"
                       [] OTHER -> "other"
        IN  /\ out.initial_status =
                   IF \A f \in {"claim_id", "member_id", "provider_id", "procedure_code",
                                 "diagnosis_code", "cost", "date_of_service", "claim_type"} :
                          f \in DOMAIN raw
                   THEN "parsed" ELSE "needs_review_missing_fields"
            /\ out.category = expected
            /\ out.initial_status = "needs_review_missing_fields" => "reason" \in DOMAIN out

\* C19 witness: Intake has handled an inpatient record without diagnosis_code, which
\* keeps the category inpatient, and a complete record of claim_type "Outpatient",
\* which gets the category outpatient.
IntakeCategoryWitness ==
    \E r \in Runs :
        /\ pc[r] = "validate"
        /\ Len(intake_output[r]) = 2
        /\ "diagnosis_code" \notin DOMAIN intake_output[r][1]
        /\ intake_output[r][1].initial_status = "needs_review_missing_fields"
        /\ intake_output[r][1].category = "inpatient"
        /\ Get(intake_output[r][2], "claim_type", "unknown") = "Outpatient"
        /\ intake_output[r][2].initial_status = "parsed"
        /\ intake_output[r][2].category = "outpatient"

BatchStateAppendOnly ==
    /\ [][\A r \in Runs :
             LET n == Len(anomaly_output[r])
                 handles == pc[r] = "detect" /\ Len(anomaly_output'[r]) = n + 1
                 claim == validation_output[r][n + 1]
             IN  /\ (handles /\ IsValid(claim)) =>
                        /\ Len(claims_db') = Len(claims_db) + 1
                        /\ \A k \in 1..Len(claims_db) : claims_db'[k] = claims_db[k]
                        /\ claims_db'[Len(claims_db')] =
                               [claim_id |-> claim.claim_id, member_id |-> claim.member_id,
                                provider_id |-> claim.provider_id,
                                procedure_code |-> claim.procedure_code,
                                date_of_service |-> claim.date_of_service]
                 /\ (handles /\ ~IsValid(claim)) => claims_db' = claims_db
                 /\ (pc[r] = "idle" /\ pc'[r] = "intake") => claims_db' = <<>>
                 /\ (pc[r] \notin {"idle", "detect"} /\ pc'[r] # pc[r])
                        => claims_db' = claims_db
                 /\ (pc[r] = "detect" /\ pc'[r] = "explain") => claims_db' = claims_db]_vars
    /\ [](\A r \in Runs :
             (pc[r] # "idle" /\ \A q \in Runs : q > r => pc[q] = "idle") =>
                 \A p \in {"PRV001", "PRV002", "PRV003"} :
                     get_provider_claim_frequency(claims_db, p)
                         = Cardinality({i \in 1..Len(anomaly_output[r]) :
                                           /\ IsValid(anomaly_output[r][i])
                                           /\ anomaly_output[r][i].provider_id = p}))

\* C21 witness: the Router is about to run on a batch whose detector recorded two
\* claims of provider PRV001 and then one of PRV002.
BatchStateWitness ==
    \E r \in Runs :
        /\ pc[r] = "route"
        /\ Len(claims_db) = 3
        /\ claims_db[1].provider_id = "PRV001"
        /\ claims_db[2].provider_id = "PRV001"
        /\ claims_db[3].provider_id = "PRV002"
        /\ get_provider_claim_frequency(claims_db, "PRV001") = 2

\* C22: a failure of the explanation collaborator never aborts a run: the run
\* goes on with an explanation for every claim of the batch, each claim without
\* an anomaly keeping the explanation N/A, and still reaches routing and the
\* audit report.
ExplanationFailureRecovered ==
    \A r \in Runs :
        /\ pc[r] # "aborted"
        /\ pc[r] \in {"route", "summarize", "done"} =>
               /\ Len(explanation_output[r]) = Len(anomaly_output[r])
               /\ \A i \in 1..Len(explanation_output[r]) :
                      TagsOf(anomaly_output[r][i]) = {}
                          => explanation_output[r][i].anomaly_explanation = <<"N/A">>

\* C23: the claims listed in the audit report are the claims routed to audit: every
\* such claim (invalid, or with an anomaly score above 0) is listed once, under the
\* group of its provider and no other, no approved claim is listed, and the groups
\* list as many claims as were routed to audit.
ReportListsAuditClaims ==
    \A r \in Runs :
        pc[r] = "done" =>
            LET routed == routing_output[r]
                groups == audit_summary[r].groups
                lines == UNION {{<<g, k>> : k \in 1..Len(groups[g].claims)} :
                                   g \in 1..Len(groups)}
                audit == {i \in 1..Len(routed) : routed[i].final_routing = "audit"}
                linesOf(i) ==
                    {l \in lines :
                        /\ "claim_id" \in DOMAIN routed[i]
                        /\ groups[l[1]].claims[l[2]].claim_id = routed[i].claim_id}
            IN  /\ Cardinality(lines) = Cardinality(audit)
                /\ \A i \in audit :
                       /\ Cardinality(linesOf(i)) = 1
                       /\ \A l \in linesOf(i) :
                              groups[l[1]].provider_id = routed[i].provider_id
                /\ \A i \in 1..Len(routed) : i \notin audit => linesOf(i) = {}

\* C24: in a batch with unique claim_ids, the verdict the detector gives a valid
\* claim by recording it and then checking the database, its own entry skipped by
\* claim_id, is the verdict of checking the claim against the database as it was
\* before the claim was recorded.
RecordThenCheckAsCheckThenRecord ==
    [][\A r \in Runs :
          LET n == Len(anomaly_output[r])
              claim == validation_output[r][n + 1]
              uniqueIds ==
                  \A i, j \in 1..Len(validation_output[r]) :
                      (/\ i # j
                       /\ "claim_id" \in DOMAIN validation_output[r][i]
                       /\ "claim_id" \in DOMAIN validation_output[r][j])
                          => validation_output[r][i].claim_id # validation_output[r][j].claim_id
              checkedFirst ==
                  \E k \in 1..Len(claims_db) :
                      /\ claims_db[k].member_id = claim.member_id
                      /\ claims_db[k].provider_id = claim.provider_id
                      /\ claims_db[k].procedure_code = claim.procedure_code
                      /\ claims_db[k].date_of_service \in ParseableDates
                      /\ claim.date_of_service \in ParseableDates
                      /\ Abs(Strptime(claim.date_of_service)
                             - Strptime(claims_db[k].date_of_service)) <= 3
          IN  (/\ pc[r] = "detect"
               /\ Len(anomaly_output'[r]) = n + 1
               /\ IsValid(claim)
               /\ uniqueIds)
                  => /\ "duplicate" \in TagsOf(anomaly_output'[r][n + 1]) <=> checkedFirst
                     /\ claims_db' = Append(claims_db, DbEntry(claim))]_vars

\* C24 witness: the detector is two claims into a batch of three; the second claim
\* was found a duplicate of the first, the only entry before it, and both are
\* now recorded.
RecordThenCheckWitness ==
    \E r \in Runs :
        /\ pc[r] = "detect"
        /\ Len(validation_output[r]) = 3
        /\ Len(anomaly_output[r]) = 2
        /\ "duplicate" \notin TagsOf(anomaly_output[r][1])
        /\ "duplicate" \in TagsOf(anomaly_output[r][2])
        /\ Len(claims_db) = 2
        /\ claims_db[1].claim_id # claims_db[2].claim_id

=============================================================================
